---- MODULE Spec2Model ----
(***************************************************************************)
(* Model of the match state engine of server.js (ChessMMO): one room, the  *)
(* sockets of its players, its timers.  Every handler and every timer      *)
(* callback of the server is one action; the helper functions of the       *)
(* server are operators that map a room record to the room record the      *)
(* function leaves behind.                                                 *)
(*                                                                         *)
(* The sizes of the source (a 200x200 board, 16 pieces per player, a leash *)
(* of 10, 20 players, a countdown of 60 s, a cooldown of 5 s) are scaled   *)
(* down so that the state space is finite and small; each scaled           *)
(* definition names the source value it stands for.  The cooldown          *)
(* timeouts are timed in seconds and the room cleanup in hours; the shrink *)
(* interval and the removal timeouts fire at any moment.                   *)
(***************************************************************************)
EXTENDS Integers, Sequences, FiniteSets, TLC

\* ------------------------------------------------------------------ sizes
BOARD_SIZE == 5        \* server.js:26 BOARD_SIZE = 200, scaled
MAX_PLAYERS == 2       \* server.js:27 MAX_PLAYERS = 20, scaled
MIN_PLAYERS == 2       \* server.js:202 room.players.size < 2
SPAWN_MARGIN == 1      \* server.js:347 "+ 5" (and the 10 = 2 * 5 beside it), scaled
MIN_DISTANCE == 2      \* server.js:339 minDistance = 20, scaled
LEASH == 1             \* server.js:481 distanceToKing > 10, scaled
SHRINK_START == 2      \* server.js:38 shrinkTimer: 60, scaled
SHRINK_PER_EVENT == 2  \* server.js:448 Math.min(2, borderSquares.length)
COOLDOWN == 1          \* server.js:515 5000 ms, in seconds, scaled
REAP_AFTER == 1        \* server.js:620 24 * 60 * 60 * 1000 ms, in hours, scaled

\* What the environment may do in one behaviour: the number of requests of
\* each kind the server accepts, of shrink events and of hours that pass.  A
\* behaviour is of one kind (see Init): it starts with no room at all
\* (Lobby), or in a match two players have just started, where it has moves
\* only (Duel), or a move, a shrink event, a socket that closes and a reset
\* (Match), or shrink events only (Siege), or a shrink event, a reset and a
\* new start (Rematch), or a move while the hours pass (Idle).
LobbyJoins == 3        \* players created
LobbyStarts == 1       \* matches started
LobbyLeaves == 1       \* sockets of players closed
LobbyResets == 1       \* resets accepted
DuelMoves == 2         \* moves accepted
MatchMoves == 1
MatchShrinks == 1      \* shrink events
MatchLeaves == 1
MatchResets == 1
SiegeShrinks == 9      \* enough to fill the outer ring of the board
RematchShrinks == 1
RematchResets == 1
RematchStarts == 1
IdleMoves == 1
IdleHours == 2         \* runs of the room cleanup

NULL == 0              \* null / undefined for ids
NoPiece == <<>>        \* board cell without a piece
NoRoom == [phase |-> "none"]

ADMIN_PASSWORD == "chipschessmmo"
Passwords == {ADMIN_PASSWORD, "wrong"}

\* A client picks its session key and its name.  Session keys are opaque and
\* only compared for equality, so the model names the keys in the order in
\* which the room first sees them: a join presents the key of a player of the
\* room or the smallest key no player of the room holds.  The client holding
\* key k calls itself NameOf(k).
Sessions == 1 .. (MAX_PLAYERS + 1)
NameOf(k) == IF k = 1 THEN "ann" ELSE IF k = 2 THEN "bob" ELSE IF k = 3 THEN "cat" ELSE "dan"

Cells == (0 .. BOARD_SIZE - 1) \X (0 .. BOARD_SIZE - 1)

\* pieceTypes of createPlayerPieces, cut to its first two entries
pieceTypes ==
    << [type |-> "king", row |-> 0, col |-> 0],
       [type |-> "queen", row |-> 0, col |-> 1] >>

\* generateWoods draws the woods at random; the outcomes the model draws from
WoodsChoices == { {}, {<<0, 1>>, <<2, 2>>} }

Max(a, b) == IF a >= b THEN a ELSE b
Min(a, b) == IF a <= b THEN a ELSE b
Abs(a) == IF a >= 0 THEN a ELSE 0 - a

VARIABLES
    room,          \* the room record of gameRooms (NoRoom before the first join)
    sockets,       \* the open sockets that name a player: [roomId, playerId]
    nextPlayerId,  \* the next fresh player id
    intervals,     \* the handles of the live shrink intervals
    cooldowns,     \* pending cooldown timeouts, oldest first
    graces,        \* pending removal timeouts, oldest first
    now,           \* Date.now(), in whole hours since the server started
    budget         \* what the environment may still do

vars == << room, sockets, nextPlayerId, intervals, cooldowns, graces, now, budget >>

\* ------------------------------------------------------------ room record
createBoard == [c \in Cells |-> NoPiece]

createGameRoom(w, t) ==
    [ phase |-> "lobby",
      players |-> << >>,
      board |-> createBoard,
      woods |-> w,
      dangerZones |-> {},
      shrinkTimer |-> SHRINK_START,
      shrinkInterval |-> NULL,
      turn |-> 0,
      admin |-> NULL,
      lastActivity |-> t ]

\* index of the player with this id in room.players (insertion order), 0 if none
PlayerIndex(r, pid) ==
    IF \E i \in 1 .. Len(r.players) : r.players[i].id = pid
    THEN CHOOSE i \in 1 .. Len(r.players) : r.players[i].id = pid
    ELSE 0

HasPlayer(r, pid) == PlayerIndex(r, pid) # 0
GetPlayer(r, pid) == r.players[PlayerIndex(r, pid)]

\* Array.from(room.players.values()).find(p => p.sessionId === sessionId)
ExistingPlayerIndex(r, sessionId) ==
    IF \E i \in 1 .. Len(r.players) : r.players[i].sessionId = sessionId
    THEN CHOOSE i \in 1 .. Len(r.players) :
            /\ r.players[i].sessionId = sessionId
            /\ \A j \in 1 .. i - 1 : r.players[j].sessionId # sessionId
    ELSE 0

HeldSessions(r) == { r.players[i].sessionId : i \in 1 .. Len(r.players) }

\* a message to the room or to the other sockets of the room
Msg(ev, arg) == [ev |-> ev, arg |-> arg]

\* ------------------------------------------------------------ Math.random
\* The values Math.floor(Math.random() * n) takes in the model: the draws
\* 0, 1/2 and just under 1 of Math.random().
RandomFloor(n) == { k \in {0, n - 1} : k >= 0 /\ k < n }

\* ------------------------------------------------------------------ spawn
\* createPlayerPieces(playerId, startRow, startCol); a piece id is
\* `${playerId}_${index}`, here the pair <<playerId, index>>
createPlayerPieces(playerId, startRow, startCol) ==
    [ i \in 1 .. Len(pieceTypes) |->
        [ id |-> << playerId, i - 1 >>,
          type |-> pieceTypes[i].type,
          playerId |-> playerId,
          row |-> Max(0, Min(BOARD_SIZE - 1, startRow + pieceTypes[i].row)),
          col |-> Max(0, Min(BOARD_SIZE - 1, startCol + pieceTypes[i].col)),
          canMove |-> TRUE ] ]

\* a draw of the attempt loop of generateSpawnPositions
SpawnDraws ==
    { << r + SPAWN_MARGIN, c + SPAWN_MARGIN >> :
        r \in RandomFloor(BOARD_SIZE - 2 * SPAWN_MARGIN),
        c \in RandomFloor(BOARD_SIZE - 2 * SPAWN_MARGIN) }

\* distance < minDistance to some earlier position (squared: no square roots)
TooClose(positions, p) ==
    \E i \in 1 .. Len(positions) :
        (p[1] - positions[i][1]) * (p[1] - positions[i][1])
          + (p[2] - positions[i][2]) * (p[2] - positions[i][2])
        < MIN_DISTANCE * MIN_DISTANCE

\* the position generateSpawnPositions falls back to when every attempt failed
SpawnFallbacks ==
    LET EdgePos(edge, x) ==
            IF edge = 0 THEN << SPAWN_MARGIN, x >>
            ELSE IF edge = 1 THEN << BOARD_SIZE - SPAWN_MARGIN, x >>
            ELSE IF edge = 2 THEN << x, SPAWN_MARGIN >>
            ELSE << x, BOARD_SIZE - SPAWN_MARGIN >>
    IN  { EdgePos(edge, x) : edge \in RandomFloor(4), x \in RandomFloor(BOARD_SIZE) }

\* the positions the loop body of generateSpawnPositions can push after
\* `positions`: an accepted draw, or the fallback when all attempts can fail
SpawnNext(positions) ==
    { p \in SpawnDraws : ~TooClose(positions, p) }
      \cup (IF \E p \in SpawnDraws : TooClose(positions, p) THEN SpawnFallbacks ELSE {})

\* every result generateSpawnPositions(playerCount) can return
RECURSIVE generateSpawnPositions(_)
generateSpawnPositions(playerCount) ==
    IF playerCount = 0 THEN { << >> }
    ELSE UNION { { Append(ps, p) : p \in SpawnNext(ps) } :
                    ps \in generateSpawnPositions(playerCount - 1) }

\* player.pieces.forEach(piece => room.board[piece.row][piece.col].piece = piece)
RECURSIVE PlacePieces(_, _)
PlacePieces(board, pieces) ==
    IF pieces = << >> THEN board
    ELSE PlacePieces([board EXCEPT ![<< Head(pieces).row, Head(pieces).col >>] = Head(pieces).id],
                     Tail(pieces))

\* spawnPlayers(room), with spawnPositions the result of generateSpawnPositions
RECURSIVE SpawnFrom(_, _, _)
SpawnFrom(r, spawnPositions, index) ==
    IF index > Len(r.players) \/ index > Len(spawnPositions) THEN r
    ELSE LET spawn == spawnPositions[index]
             pieces == createPlayerPieces(r.players[index].id, spawn[1], spawn[2])
         IN  SpawnFrom([r EXCEPT !.players[index].pieces = pieces,
                                 !.board = PlacePieces(@, pieces)],
                       spawnPositions, index + 1)

spawnPlayers(r, spawnPositions) == SpawnFrom(r, spawnPositions, 1)

\* ---------------------------------------------------------- piece removal
\* removePieceFromGame that forgets to mark the owner dead
removePieceFromGameKeepsAlive(r, pieceId) ==
    LET i == PlayerIndex(r, pieceId[1])
        Keep(p) == p.id # pieceId
    IN  IF i = 0 THEN r
        ELSE [r EXCEPT !.players[i].pieces = SelectSeq(@, Keep)]

\* removePieceFromGame(room, piece), piece given by its id and its owner
removePieceFromGame(r, pieceId) ==
    LET i == PlayerIndex(r, pieceId[1])
        Keep(p) == p.id # pieceId
    IN  IF i = 0 THEN r
        ELSE LET left == SelectSeq(r.players[i].pieces, Keep)
             IN  [r EXCEPT !.players[i].pieces = left,
                           !.players[i].alive = IF Len(left) = 0 THEN FALSE ELSE @]

\* findPiece(room, pieceId): << player index, piece index >>, << >> if none
findPiece(r, pieceId) ==
    LET hits == { << i, j >> \in (1 .. Len(r.players)) \X (1 .. Len(pieceTypes)) :
                    /\ j <= Len(r.players[i].pieces)
                    /\ r.players[i].pieces[j].id = pieceId }
    IN  IF hits = {} THEN << >>
        ELSE CHOOSE h \in hits : \A g \in hits : h[1] < g[1] \/ (h[1] = g[1] /\ h[2] <= g[2])

\* player.pieces.find(p => p.type === 'king'): its index in the list, 0 if none
KingIndex(pieces) ==
    IF \E j \in 1 .. Len(pieces) : pieces[j].type = "king"
    THEN CHOOSE j \in 1 .. Len(pieces) :
            /\ pieces[j].type = "king"
            /\ \A k \in 1 .. j - 1 : pieces[k].type # "king"
    ELSE 0

\* ------------------------------------------------------------------ moves
\* the king of the player of piece and the leash check of isValidMove
OutOfLeash(r, piece, toRow, toCol) ==
    LET pieces == GetPlayer(r, piece.playerId).pieces
        k == KingIndex(pieces)
    IN  k # 0 /\ Max(Abs(toRow - pieces[k].row), Abs(toCol - pieces[k].col)) > LEASH

\* isValidMove without the check of woods and danger zones
isValidMoveAnyTerrain(r, piece, toRow, toCol) ==
    IF toRow < 0 \/ toRow >= BOARD_SIZE \/ toCol < 0 \/ toCol >= BOARD_SIZE THEN FALSE
    ELSE IF ~piece.canMove /\ piece.type # "king" THEN FALSE
    ELSE ~OutOfLeash(r, piece, toRow, toCol)

\* isValidMove with the leash check applied to the other pieces only
isValidMoveKingUnleashed(r, piece, toRow, toCol) ==
    IF toRow < 0 \/ toRow >= BOARD_SIZE \/ toCol < 0 \/ toCol >= BOARD_SIZE THEN FALSE
    ELSE IF << toRow, toCol >> \in r.woods \/ << toRow, toCol >> \in r.dangerZones THEN FALSE
    ELSE IF ~piece.canMove /\ piece.type # "king" THEN FALSE
    ELSE piece.type = "king" \/ ~OutOfLeash(r, piece, toRow, toCol)

\* isValidMove without the cooldown check
isValidMoveNoCooldown(r, piece, toRow, toCol) ==
    IF toRow < 0 \/ toRow >= BOARD_SIZE \/ toCol < 0 \/ toCol >= BOARD_SIZE THEN FALSE
    ELSE IF << toRow, toCol >> \in r.woods \/ << toRow, toCol >> \in r.dangerZones THEN FALSE
    ELSE ~OutOfLeash(r, piece, toRow, toCol)

\* isValidMove(room, piece, toRow, toCol)
isValidMove(r, piece, toRow, toCol) ==
    IF toRow < 0 \/ toRow >= BOARD_SIZE \/ toCol < 0 \/ toCol >= BOARD_SIZE THEN FALSE
    ELSE IF << toRow, toCol >> \in r.woods \/ << toRow, toCol >> \in r.dangerZones THEN FALSE
    ELSE IF ~piece.canMove /\ piece.type # "king" THEN FALSE
    ELSE IF OutOfLeash(r, piece, toRow, toCol) THEN FALSE
    ELSE TRUE

\* executeMove(room, piece, toRow, toCol): the room it leaves (the cooldown
\* timeout it sets is added by the handler's action)
executeMove(r, piece, toRow, toCol) ==
    LET r1 == [r EXCEPT !.board[<< piece.row, piece.col >>] = NoPiece]
        capturedPiece == r1.board[<< toRow, toCol >>]
        r2 == IF capturedPiece # NoPiece THEN removePieceFromGame(r1, capturedPiece) ELSE r1
        at == findPiece(r2, piece.id)
        r3 == IF at = << >> THEN r2
              ELSE [r2 EXCEPT !.players[at[1]].pieces[at[2]].row = toRow,
                              !.players[at[1]].pieces[at[2]].col = toCol,
                              !.players[at[1]].pieces[at[2]].canMove =
                                    IF piece.type # "king" THEN FALSE ELSE @]
    IN  [r3 EXCEPT !.board[<< toRow, toCol >>] = piece.id]

\* the players checkGameEnd counts
AlivePlayers(r) ==
    SelectSeq(r.players, LAMBDA p : p.alive /\ Len(p.pieces) > 0)

\* checkGameEnd that ends the match one player too early
GameEndsEarly(r) == Len(AlivePlayers(r)) <= 2

\* checkGameEnd(room): does it end the match
GameEnds(r) == Len(AlivePlayers(r)) <= 1

\* the winner checkGameEnd announces
WinnerName(r) == IF Len(AlivePlayers(r)) > 0 THEN AlivePlayers(r)[1].name ELSE "null"

\* clearInterval(handle)
clearInterval(ivs, handle) == SelectSeq(ivs, LAMBDA h : h # handle)

\* ---------------------------------------------------------------- removal
RECURSIVE ClearCells(_, _)
ClearCells(board, pieces) ==
    IF pieces = << >> THEN board
    ELSE ClearCells([board EXCEPT ![<< Head(pieces).row, Head(pieces).col >>] = NoPiece],
                    Tail(pieces))

\* removePlayer that leaves the pieces of the player on the board
removePlayerLeavesPieces(r, playerId) ==
    LET i == PlayerIndex(r, playerId)
    IN  IF i = 0 THEN r
        ELSE LET rest == SelectSeq(r.players, LAMBDA p : p.id # playerId)
                 r1 == [r EXCEPT !.players = rest]
             IN  IF r.admin = playerId /\ Len(rest) > 0
                 THEN [r1 EXCEPT !.players[1].isAdmin = TRUE, !.admin = rest[1].id]
                 ELSE r1

\* removePlayer(room, playerId)
removePlayer(r, playerId) ==
    LET i == PlayerIndex(r, playerId)
    IN  IF i = 0 THEN r
        ELSE LET rest == SelectSeq(r.players, LAMBDA p : p.id # playerId)
                 r1 == [r EXCEPT !.board = ClearCells(@, r.players[i].pieces),
                                 !.players = rest]
             IN  IF r.admin = playerId /\ Len(rest) > 0
                 THEN [r1 EXCEPT !.players[1].isAdmin = TRUE, !.admin = rest[1].id]
                 ELSE r1

\* resetGame(room), with w the woods generateWoods draws
resetGame(r, w) ==
    [r EXCEPT !.phase = "lobby",
              !.board = createBoard,
              !.woods = w,
              !.dangerZones = {},
              !.shrinkTimer = SHRINK_START,
              !.turn = 0,
              !.players = [ i \in 1 .. Len(r.players) |->
                              [r.players[i] EXCEPT !.pieces = << >>, !.alive = TRUE] ]]

\* borderSquares of shrinkBoard, in the order of its two loops
BorderSquares(r) ==
    LET all == [ k \in 1 .. BOARD_SIZE * BOARD_SIZE |->
                    << (k - 1) \div BOARD_SIZE, (k - 1) % BOARD_SIZE >> ]
    IN  SelectSeq(all, LAMBDA c :
            /\ (c[1] = 0 \/ c[1] = BOARD_SIZE - 1 \/ c[2] = 0 \/ c[2] = BOARD_SIZE - 1)
            /\ c \notin r.dangerZones)

RemoveAt(seq, k) == [ j \in 1 .. Len(seq) - 1 |-> IF j < k THEN seq[j] ELSE seq[j + 1] ]

\* the loop of shrinkBoard from iteration i on: every room it can leave
RECURSIVE ShrinkLoop(_, _, _)
ShrinkLoop(r, borderSquares, i) ==
    IF i < Min(SHRINK_PER_EVENT, Len(borderSquares))
    THEN UNION { LET square == borderSquares[randomIndex + 1]
                     r1 == [r EXCEPT !.dangerZones = @ \cup {square}]
                     piece == r.board[square]
                     r2 == IF piece # NoPiece THEN removePieceFromGame(r1, piece) ELSE r1
                 IN  ShrinkLoop(r2, RemoveAt(borderSquares, randomIndex + 1), i + 1)
               : randomIndex \in RandomFloor(Len(borderSquares)) }
    ELSE { r }

\* shrinkBoard(room): every room it can leave
shrinkBoard(r) == ShrinkLoop(r, BorderSquares(r), 0)

\* ------------------------------------------------------------- handlers
\* Each handler is an operator from the current state and the request to
\* what the handler leaves behind: the variables it can change, `out` (what
\* it sends to the room or to the other sockets of the room, in order) and
\* `verdict` (the branch it took).  The action of the handler installs it.

\* the socket's player, if the socket names a room and a player of it
SocketPlayer(s) ==
    IF s.roomId /\ room # NoRoom THEN PlayerIndex(room, s.playerId) ELSE 0

\* the new-player branch of join_room that admits players to a started match
JoinRefusalFullOnly(r) ==
    IF Len(r.players) >= MAX_PLAYERS THEN "room_full" ELSE "none"

\* the new-player branch of join_room: why it turns the join away
JoinRefusal(r) ==
    IF Len(r.players) >= MAX_PLAYERS THEN "room_full"
    ELSE IF r.phase # "lobby" THEN "already_started"
    ELSE "none"

\* socket.on('join_room'), with w the woods a new room gets
JoinResult(s, w, sessionId, playerName, isAdmin, adminPassword) ==
    LET same == [room |-> room, socket |-> s, nextPlayerId |-> nextPlayerId,
                 out |-> << >>, verdict |-> "bad_password"]
        r == IF room = NoRoom THEN createGameRoom(w, now) ELSE room
        e == ExistingPlayerIndex(r, sessionId)
        player == [ id |-> nextPlayerId,
                    sessionId |-> sessionId,
                    name |-> playerName,
                    isAdmin |-> isAdmin /\ r.admin = NULL,
                    pieces |-> << >>,
                    alive |-> TRUE,
                    connected |-> TRUE ]
    IN  IF isAdmin /\ adminPassword # ADMIN_PASSWORD THEN same
        ELSE IF e # 0
        THEN [same EXCEPT !.room = [r EXCEPT !.players[e].connected = TRUE,
                                             !.lastActivity = now],
                          !.socket = [s EXCEPT !.roomId = TRUE],
                          !.out = << Msg("player_reconnected", r.players[e].id) >>,
                          !.verdict = "reconnected"]
        ELSE IF JoinRefusal(r) # "none"
        THEN [same EXCEPT !.room = r, !.verdict = JoinRefusal(r)]
        ELSE [same EXCEPT
                !.room = [r EXCEPT !.admin = IF player.isAdmin THEN player.id ELSE @,
                                   !.players = Append(@, player),
                                   !.lastActivity = now],
                !.socket = [s EXCEPT !.roomId = TRUE, !.playerId = player.id],
                !.nextPlayerId = nextPlayerId + 1,
                !.out = << Msg("player_joined", player.id) >>,
                !.verdict = "joined"]

\* a handle setInterval has not handed out to a live interval
FreshHandle == CHOOSE h \in 1 .. Len(intervals) + 1 :
                  \A i \in 1 .. Len(intervals) : intervals[i] # h

\* start_game that takes the request of any player
StartRefusalAnyPlayer(s) ==
    LET i == SocketPlayer(s)
    IN  IF ~s.roomId \/ room = NoRoom THEN "ignored"
        ELSE IF i = 0 THEN "not_admin"
        ELSE IF room.phase # "lobby" THEN "already_started"
        ELSE IF Len(room.players) < MIN_PLAYERS THEN "not_enough_players"
        ELSE "none"

\* the early returns of start_game: why it turns the request away
StartRefusal(s) ==
    LET i == SocketPlayer(s)
    IN  IF ~s.roomId \/ room = NoRoom THEN "ignored"
        ELSE IF i = 0 THEN "not_admin"
        ELSE IF ~room.players[i].isAdmin THEN "not_admin"
        ELSE IF room.phase # "lobby" THEN "already_started"
        ELSE IF Len(room.players) < MIN_PLAYERS THEN "not_enough_players"
        ELSE "none"

\* socket.on('start_game'), with spawnPositions what generateSpawnPositions returns
StartResult(s, spawnPositions) ==
    LET same == [room |-> room, intervals |-> intervals, out |-> << >>,
                 verdict |-> "ignored"]
    IN  IF StartRefusal(s) # "none" THEN [same EXCEPT !.verdict = StartRefusal(s)]
        ELSE [same EXCEPT
                !.room = [spawnPlayers([room EXCEPT !.phase = "playing"], spawnPositions)
                            EXCEPT !.shrinkInterval = FreshHandle],
                \* startShrinkTimer: setInterval(..., 1000)
                !.intervals = Append(intervals, FreshHandle),
                !.out = << Msg("game_started", NULL) >>,
                !.verdict = "started"]

\* checkGameEnd(room): the room, the live intervals and the messages it leaves
checkGameEnd(r, ivs) ==
    IF GameEnds(r)
    THEN [room |-> [r EXCEPT !.phase = "ended"],
          intervals |-> IF r.shrinkInterval # NULL
                        THEN clearInterval(ivs, r.shrinkInterval) ELSE ivs,
          out |-> << Msg("game_ended", WinnerName(r)) >>]
    ELSE [room |-> r, intervals |-> ivs, out |-> << >>]

\* socket.on('move_piece')
MoveResult(s, pieceId, toRow, toCol) ==
    LET same == [room |-> room, intervals |-> intervals, cooldowns |-> cooldowns,
                 out |-> << >>, verdict |-> "ignored"]
        i == SocketPlayer(s)
        at == IF room = NoRoom THEN << >> ELSE findPiece(room, pieceId)
    IN  IF ~s.roomId \/ room = NoRoom THEN same
        ELSE IF room.phase # "playing" THEN same
        ELSE IF i = 0 THEN same
        ELSE IF ~room.players[i].alive THEN same
        ELSE IF at = << >> THEN same
        ELSE IF room.players[at[1]].pieces[at[2]].playerId # s.playerId THEN same
        ELSE LET piece == room.players[at[1]].pieces[at[2]]
                 r1 == executeMove(room, piece, toRow, toCol)
                 end == checkGameEnd(r1, intervals)
             IN  IF ~isValidMove(room, piece, toRow, toCol)
                 THEN [same EXCEPT !.verdict = "invalid"]
                 ELSE [ room |-> end.room,
                        intervals |-> end.intervals,
                        \* setTimeout(..., 5000) of executeMove
                        cooldowns |-> IF piece.type # "king"
                                      THEN Append(cooldowns, [pieceId |-> piece.id,
                                                              current |-> TRUE,
                                                              left |-> COOLDOWN])
                                      ELSE cooldowns,
                        out |-> << Msg("piece_moved", piece.id) >> \o end.out,
                        verdict |-> "moved" ]

\* reset_game that leaves the shrink interval running
ResetResultKeepsTimer(s, w) ==
    LET same == [room |-> room, intervals |-> intervals, cooldowns |-> cooldowns,
                 out |-> << >>, verdict |-> "ignored"]
        i == SocketPlayer(s)
    IN  IF ~s.roomId \/ room = NoRoom THEN same
        ELSE IF i = 0 THEN same
        ELSE IF ~room.players[i].isAdmin THEN same
        ELSE [ room |-> resetGame(room, w),
               intervals |-> intervals,
               cooldowns |-> [ k \in 1 .. Len(cooldowns) |->
                                 [cooldowns[k] EXCEPT !.current = FALSE] ],
               out |-> << Msg("game_reset", NULL) >>,
               verdict |-> "reset" ]

\* socket.on('reset_game'), with w the woods generateWoods draws
ResetResult(s, w) ==
    LET same == [room |-> room, intervals |-> intervals, cooldowns |-> cooldowns,
                 out |-> << >>, verdict |-> "ignored"]
        i == SocketPlayer(s)
    IN  IF ~s.roomId \/ room = NoRoom THEN same
        ELSE IF i = 0 THEN same
        ELSE IF ~room.players[i].isAdmin THEN same
        ELSE [ room |-> resetGame(room, w),
               intervals |-> IF room.shrinkInterval # NULL
                             THEN clearInterval(intervals, room.shrinkInterval)
                             ELSE intervals,
               \* the pieces the pending cooldown timeouts hold are no longer
               \* the pieces of any player
               cooldowns |-> [ k \in 1 .. Len(cooldowns) |->
                                 [cooldowns[k] EXCEPT !.current = FALSE] ],
               out |-> << Msg("game_reset", NULL) >>,
               verdict |-> "reset" ]

\* socket.on('disconnect')
DisconnectResult(s) ==
    LET i == SocketPlayer(s)
    IN  IF i # 0 /\ s.playerId # NULL
        THEN [ room |-> [room EXCEPT !.players[i].connected = FALSE],
               \* setTimeout(..., 5 * 60 * 1000)
               graces |-> Append(graces, s.playerId),
               out |-> << Msg("player_disconnected", s.playerId) >>,
               verdict |-> "disconnected" ]
        ELSE [ room |-> room, graces |-> graces, out |-> << >>, verdict |-> "ignored" ]

\* the removal check that removes the player it names, connected or not
GraceResultAlways(playerId) ==
    IF HasPlayer(room, playerId)
    THEN [ room |-> removePlayer(room, playerId),
           out |-> << Msg("player_removed", playerId) >>,
           verdict |-> "removed" ]
    ELSE [ room |-> room, out |-> << >>, verdict |-> "kept" ]

\* the callback of the timeout the disconnect handler set for playerId
GraceResult(playerId) ==
    IF HasPlayer(room, playerId) /\ ~GetPlayer(room, playerId).connected
    THEN [ room |-> removePlayer(room, playerId),
           out |-> << Msg("player_removed", playerId) >>,
           verdict |-> "removed" ]
    ELSE [ room |-> room, out |-> << >>, verdict |-> "kept" ]

\* the callback of the timeout executeMove set: timeout t of cooldowns
CooldownResult(t) ==
    LET at == IF t.current /\ room # NoRoom THEN findPiece(room, t.pieceId) ELSE << >>
    IN  [ room |-> IF at = << >> THEN room
                   ELSE [room EXCEPT !.players[at[1]].pieces[at[2]].canMove = TRUE],
          out |-> << Msg("cooldown_expired", t.pieceId) >> ]

\* the interval callback that restarts the full countdown after a shrink event
TickResultsRestart(h) ==
    IF room.phase # "playing"
    THEN { [ room |-> room,
             intervals |-> clearInterval(intervals, room.shrinkInterval),
             out |-> << >>, verdict |-> "stopped" ] }
    ELSE IF room.shrinkTimer - 1 <= 0
    THEN { [ room |-> [r1 EXCEPT !.shrinkTimer = SHRINK_START],
             intervals |-> intervals,
             out |-> << Msg("timer_update", << SHRINK_START, r1.dangerZones >>) >>,
             verdict |-> "shrunk" ]
           : r1 \in shrinkBoard([room EXCEPT !.shrinkTimer = @ - 1]) }
    ELSE { [ room |-> [room EXCEPT !.shrinkTimer = @ - 1],
             intervals |-> intervals,
             out |-> << Msg("timer_update", << room.shrinkTimer - 1, room.dangerZones >>) >>,
             verdict |-> "counted" ] }

\* the callback of the interval startShrinkTimer set, for the live interval
\* with handle h: everything it can leave
TickResults(h) ==
    IF room.phase # "playing"
    THEN { [ room |-> room,
             intervals |-> clearInterval(intervals, room.shrinkInterval),
             out |-> << >>, verdict |-> "stopped" ] }
    ELSE IF room.shrinkTimer - 1 <= 0
    THEN { [ room |-> [r1 EXCEPT !.shrinkTimer = 1],
             intervals |-> intervals,
             out |-> << Msg("timer_update", << 1, r1.dangerZones >>) >>,
             verdict |-> "shrunk" ]
           : r1 \in shrinkBoard([room EXCEPT !.shrinkTimer = @ - 1]) }
    ELSE { [ room |-> [room EXCEPT !.shrinkTimer = @ - 1],
             intervals |-> intervals,
             out |-> << Msg("timer_update", << room.shrinkTimer - 1, room.dangerZones >>) >>,
             verdict |-> "counted" ] }

\* the callback of the room cleanup interval when Date.now() is t: is the
\* room deleted from gameRooms
CleanupDeletes(t) == room # NoRoom /\ t - room.lastActivity > REAP_AFTER

\* ---------------------------------------------------------------- sockets
\* A socket is the record of its two fields the handlers read.  The state
\* holds the open sockets that name a player (at most one per player: only
\* the join that creates a player sets socket.playerId).  A socket that names
\* no player can be opened at any moment, so it is always among the sockets
\* a request may come from: one that names no room, and one that names the
\* room (register_session and the reconnect branch of join_room set roomId
\* and leave playerId unset).
NewSocket == [roomId |-> FALSE, playerId |-> NULL]
RejoinedSocket == [roomId |-> TRUE, playerId |-> NULL]
SocketInputs == sockets \cup { NewSocket, RejoinedSocket }

\* the open sockets after socket s became socket t
Rebind(s, t) == (sockets \ {s}) \cup (IF t.playerId # NULL THEN {t} ELSE {})

\* ---------------------------------------------------------------- actions
JoinRoom(s, w, sessionId, playerName, isAdmin, adminPassword) ==
    /\ s \in SocketInputs
    /\ LET res == JoinResult(s, w, sessionId, playerName, isAdmin, adminPassword)
       IN  /\ res.verdict = "joined" => budget.joins > 0
           /\ room' = res.room
           /\ sockets' = Rebind(s, res.socket)
           /\ nextPlayerId' = res.nextPlayerId
           /\ budget' = IF res.verdict = "joined"
                        THEN [budget EXCEPT !.joins = @ - 1] ELSE budget
    /\ UNCHANGED << intervals, cooldowns, graces, now >>

StartGame(s, spawnPositions) ==
    /\ s \in SocketInputs
    /\ LET res == StartResult(s, spawnPositions)
       IN  /\ res.verdict = "started" => budget.starts > 0
           /\ room' = res.room
           /\ intervals' = res.intervals
           /\ budget' = IF res.verdict = "started"
                        THEN [budget EXCEPT !.starts = @ - 1] ELSE budget
    /\ UNCHANGED << sockets, nextPlayerId, cooldowns, graces, now >>

MovePiece(s, pieceId, toRow, toCol) ==
    /\ s \in SocketInputs
    /\ LET res == MoveResult(s, pieceId, toRow, toCol)
       IN  /\ res.verdict = "moved" => budget.moves > 0
           /\ room' = res.room
           /\ intervals' = res.intervals
           /\ cooldowns' = res.cooldowns
           /\ budget' = IF res.verdict = "moved"
                        THEN [budget EXCEPT !.moves = @ - 1] ELSE budget
    /\ UNCHANGED << sockets, nextPlayerId, graces, now >>

ResetGame(s, w) ==
    /\ s \in SocketInputs
    /\ LET res == ResetResult(s, w)
       IN  /\ res.verdict = "reset" => budget.resets > 0
           /\ room' = res.room
           /\ intervals' = res.intervals
           /\ cooldowns' = res.cooldowns
           /\ budget' = IF res.verdict = "reset"
                        THEN [budget EXCEPT !.resets = @ - 1] ELSE budget
    /\ UNCHANGED << sockets, nextPlayerId, graces, now >>

\* the socket is gone for good: none of its handlers runs again
Disconnect(s) ==
    /\ s \in SocketInputs
    /\ s \in sockets => budget.leaves > 0
    /\ LET res == DisconnectResult(s)
       IN  /\ room' = res.room
           /\ graces' = res.graces
    /\ sockets' = sockets \ {s}
    /\ budget' = IF s \in sockets THEN [budget EXCEPT !.leaves = @ - 1] ELSE budget
    /\ UNCHANGED << nextPlayerId, intervals, cooldowns, now >>

\* the removal timeouts have one delay: they fire in the order they were set
GraceTimeout ==
    /\ graces # << >>
    /\ room' = GraceResult(Head(graces)).room
    /\ graces' = Tail(graces)
    /\ UNCHANGED << sockets, nextPlayerId, intervals, cooldowns, now, budget >>

\* the cooldown timeouts have one delay: they fire in the order they were set
CooldownTimeout ==
    /\ cooldowns # << >>
    /\ Head(cooldowns).left = 0
    /\ room' = CooldownResult(Head(cooldowns)).room
    /\ cooldowns' = Tail(cooldowns)
    /\ UNCHANGED << sockets, nextPlayerId, intervals, graces, now, budget >>

\* one second passes; a cooldown timeout that is due fires first
SecondPasses ==
    /\ cooldowns # << >>
    /\ \A k \in 1 .. Len(cooldowns) : cooldowns[k].left > 0
    /\ cooldowns' = [ k \in 1 .. Len(cooldowns) |-> [cooldowns[k] EXCEPT !.left = @ - 1] ]
    /\ UNCHANGED << room, sockets, nextPlayerId, intervals, graces, now, budget >>

ShrinkTick(h) ==
    /\ \E i \in 1 .. Len(intervals) : intervals[i] = h
    /\ \E res \in TickResults(h) :
          /\ res.verdict = "shrunk" => budget.shrinks > 0
          /\ room' = res.room
          /\ intervals' = res.intervals
          /\ budget' = IF res.verdict = "shrunk"
                       THEN [budget EXCEPT !.shrinks = @ - 1] ELSE budget
    /\ UNCHANGED << sockets, nextPlayerId, cooldowns, graces, now >>

\* An hour passes and the room cleanup interval fires.  The timers of a room
\* it deletes keep running on a room object that no handler reaches any
\* more; the model stops following them.
RoomCleanup ==
    /\ budget.hours > 0
    /\ now' = now + 1
    /\ IF CleanupDeletes(now + 1)
       THEN /\ room' = NoRoom
            /\ intervals' = << >>
            /\ cooldowns' = << >>
            /\ graces' = << >>
       ELSE UNCHANGED << room, intervals, cooldowns, graces >>
    /\ budget' = [budget EXCEPT !.hours = @ - 1]
    /\ UNCHANGED << sockets, nextPlayerId >>

\* ------------------------------------------------------------------ inputs
\* the session keys a join may present (see Sessions)
SessionInputs ==
    LET held == IF room = NoRoom THEN {} ELSE HeldSessions(room)
        free == Sessions \ held
    IN  held \cup (IF free = {} THEN {} ELSE {CHOOSE k \in free : \A j \in free : k <= j})

\* the join requests a socket may send.  The woods are drawn only when the
\* join creates the room, and the password is read only when the join asks
\* for admin rights.
JoinInputs ==
    { j \in [w : WoodsChoices, k : SessionInputs, a : BOOLEAN, pw : Passwords] :
        /\ room # NoRoom => j.w = {}
        /\ ~j.a => j.pw = "wrong" }

\* the destinations a move request may name: every cell of the board, and
\* one coordinate off the board on each side
Destinations ==
    Cells \cup { << 0 - 1, 0 >>, << 0, 0 - 1 >>, << BOARD_SIZE, 0 >>, << 0, BOARD_SIZE >> }

\* the piece ids of the pieces of the players of the room
PieceIds ==
    IF room = NoRoom THEN {}
    ELSE { << room.players[i].id, j >> : i \in 1 .. Len(room.players),
                                         j \in 0 .. Len(pieceTypes) - 1 }

\* an id that names no piece
NoPieceId == << NULL, 0 >>

\* the move requests << pieceId, << toRow, toCol >> >> socket s may send: for
\* each piece of its player every destination; for the other ids, which the
\* handler turns away before it looks at the destination, one destination
MoveInputs(s) ==
    { << id, to >> \in PieceIds \X Destinations : id[1] = s.playerId }
      \cup { << id, << 0, 0 >> >> : id \in { i \in PieceIds : i[1] # s.playerId }
                                            \cup { NoPieceId } }

\* what generateSpawnPositions can return to a start request
SpawnInputs ==
    IF room = NoRoom \/ room.phase # "lobby" THEN { << >> }
    ELSE generateSpawnPositions(Len(room.players))

\* ------------------------------------------------------------------- spec
LobbyBudget == [kind |-> "lobby", joins |-> LobbyJoins, starts |-> LobbyStarts, moves |-> 0,
                shrinks |-> 0, leaves |-> LobbyLeaves, resets |-> LobbyResets, hours |-> 0]
DuelBudget == [kind |-> "duel", joins |-> 0, starts |-> 0, moves |-> DuelMoves,
               shrinks |-> 0, leaves |-> 0, resets |-> 0, hours |-> 0]
MatchBudget == [kind |-> "match", joins |-> 0, starts |-> 0, moves |-> MatchMoves,
                shrinks |-> MatchShrinks, leaves |-> MatchLeaves, resets |-> MatchResets,
                hours |-> 0]
SiegeBudget == [kind |-> "siege", joins |-> 0, starts |-> 0, moves |-> 0,
                shrinks |-> SiegeShrinks, leaves |-> 0, resets |-> 0, hours |-> 0]
RematchBudget == [kind |-> "rematch", joins |-> 0, starts |-> RematchStarts, moves |-> 0,
                  shrinks |-> RematchShrinks, leaves |-> 0, resets |-> RematchResets,
                  hours |-> 0]
IdleBudget == [kind |-> "idle", joins |-> 0, starts |-> 0, moves |-> IdleMoves,
               shrinks |-> 0, leaves |-> 0, resets |-> 0, hours |-> IdleHours]

\* the server after it started: no room, no socket that names a player
InitLobby ==
    /\ room = NoRoom
    /\ sockets = {}
    /\ nextPlayerId = 1
    /\ intervals = << >>
    /\ budget = LobbyBudget

\* the lobby two sockets have joined, the first as admin
MatchLobby(w) ==
    [createGameRoom(w, 0) EXCEPT
        !.admin = 1,
        !.players = << [id |-> 1, sessionId |-> 1, name |-> NameOf(1),
                        isAdmin |-> TRUE, pieces |-> << >>,
                        alive |-> TRUE, connected |-> TRUE],
                       [id |-> 2, sessionId |-> 2, name |-> NameOf(2),
                        isAdmin |-> FALSE, pieces |-> << >>,
                        alive |-> TRUE, connected |-> TRUE] >>]

\* the woods and the spawn positions of the matches InitMatch starts in:
\* no woods and two draws that were accepted; woods and a draw followed by
\* the fallback on the edge row
MatchStarts ==
    { << {}, << << 1, 1 >>, << 1, 3 >> >> >>,
      << {<<0, 1>>, <<2, 2>>}, << << 1, 1 >>, << 1, 0 >> >> >> }

\* a match the admin of MatchLobby has just started (a state the behaviours
\* from InitLobby reach by two joins and a start)
InitMatch ==
    /\ \E m \in MatchStarts :
          room = [spawnPlayers([MatchLobby(m[1]) EXCEPT !.phase = "playing"], m[2])
                    EXCEPT !.shrinkInterval = 1]
    /\ sockets = { [roomId |-> TRUE, playerId |-> 1], [roomId |-> TRUE, playerId |-> 2] }
    /\ nextPlayerId = 3
    /\ intervals = << 1 >>
    /\ budget \in { DuelBudget, MatchBudget, SiegeBudget, RematchBudget, IdleBudget }

Init ==
    /\ InitLobby \/ InitMatch
    /\ cooldowns = << >>
    /\ graces = << >>
    /\ now = 0

Next ==
    \/ \E s \in SocketInputs, j \in JoinInputs :
          JoinRoom(s, j.w, j.k, NameOf(j.k), j.a, j.pw)
    \/ \E s \in SocketInputs, ps \in SpawnInputs : StartGame(s, ps)
    \/ \E s \in SocketInputs : \E m \in MoveInputs(s) : MovePiece(s, m[1], m[2][1], m[2][2])
    \/ \E s \in SocketInputs, w \in WoodsChoices : ResetGame(s, w)
    \/ \E s \in SocketInputs : Disconnect(s)
    \/ GraceTimeout
    \/ CooldownTimeout
    \/ SecondPasses
    \/ \E h \in 1 .. (Len(intervals) + 1) : ShrinkTick(h)
    \/ RoomCleanup

Spec == Init /\ [][Next]_vars

\* ------------------------------------------------------- claim vocabulary
Chebyshev(a, b) == Max(Abs(a[1] - b[1]), Abs(a[2] - b[2]))

Players(r) == IF r = NoRoom THEN << >> ELSE r.players

PlayerIds(r) == { Players(r)[i].id : i \in 1 .. Len(Players(r)) }

\* the pieces in the piece lists of the players
ListedPieces(r) ==
    UNION { { Players(r)[i].pieces[j] : j \in 1 .. Len(Players(r)[i].pieces) } :
              i \in 1 .. Len(Players(r)) }

CellOf(p) == << p.row, p.col >>

\* the number of players that are alive and have a piece
AliveCount(r) == Len(AlivePlayers(r))

\* the step is an accepted start, an accepted move, an accepted reset
StartStep ==
    \E s \in SocketInputs, ps \in SpawnInputs :
        StartResult(s, ps).verdict = "started" /\ room' = StartResult(s, ps).room

MoveStep ==
    \E s \in SocketInputs : \E m \in MoveInputs(s) :
        LET res == MoveResult(s, m[1], m[2][1], m[2][2])
        IN  res.verdict = "moved" /\ room' = res.room

ResetStep ==
    \E s \in SocketInputs, w \in WoodsChoices :
        ResetResult(s, w).verdict = "reset" /\ room' = ResetResult(s, w).room

\* --------------------------------------------------------------------- C1
\* every occupied cell holds a piece of its owner's list recorded at that
\* cell, every listed piece occupies the cell it records, and no two listed
\* pieces record the same cell
Duality(r) ==
    /\ \A c \in Cells : r.board[c] # NoPiece =>
          \E p \in ListedPieces(r) :
              p.id = r.board[c] /\ p.playerId = r.board[c][1] /\ CellOf(p) = c
    /\ \A p \in ListedPieces(r) : r.board[CellOf(p)] = p.id
    /\ \A p, q \in ListedPieces(r) : p.id # q.id => CellOf(p) # CellOf(q)

\* C1: board-piece duality holds in every reachable state of a room, after
\* any sequence of start, move, shrink tick, removal and reset.  Stated for
\* the steps of a match: a playing room in which duality holds before a step
\* satisfies it after the step (if the step does not delete the room).
C1_DualityKeptWhilePlaying ==
    [][(room.phase = "playing" /\ room' # NoRoom /\ room' # room /\ Duality(room))
          => Duality(room')]_vars

\* --------------------------------------------------------------------- C2
AliveIffPieces(r) ==
    \A i \in 1 .. Len(Players(r)) :
        (~Players(r)[i].alive) <=> (Players(r)[i].pieces = << >>)

\* a capture or a shrink elimination: a player's piece list got shorter and
\* the step is no reset
PieceLost ==
    /\ room'.phase # "lobby"
    /\ \E i \in 1 .. Len(Players(room)) : \E j \in 1 .. Len(Players(room')) :
          /\ Players(room)[i].id = Players(room')[j].id
          /\ Len(Players(room')[j].pieces) < Len(Players(room)[i].pieces)

\* a removal: the room lost a player
PlayerRemoved ==
    PlayerIds(room') # PlayerIds(room) /\ PlayerIds(room') \subseteq PlayerIds(room)

\* C2 as the spec states it: in the state right after every capture, every
\* shrink elimination and every removal, in whatever phase, a player's alive
\* is false exactly when its piece list is empty.
C2_AliveIffPiecesAfterEvent ==
    [][(PieceLost \/ PlayerRemoved) => AliveIffPieces(room')]_vars

\* C2, amended: in a started match (phase playing or ended) a player's alive
\* is false exactly when its piece list is empty, in every state and so
\* after every capture, shrink elimination and removal.
C2_AliveIffPiecesInMatch ==
    room.phase \in {"playing", "ended"} => AliveIffPieces(room)

\* a started match in which a player lost its last piece
C2_Witness ==
    /\ room.phase \in {"playing", "ended"}
    /\ \E i \in 1 .. Len(Players(room)) :
          ~room.players[i].alive /\ room.players[i].pieces = << >>
    /\ \E i \in 1 .. Len(Players(room)) :
          room.players[i].alive /\ room.players[i].pieces # << >>

\* --------------------------------------------------------------------- C3
\* C3: win detection runs after every capture, shrink elimination and
\* removal: a step of a playing room (other than a reset) in which the number
\* of alive players with pieces drops to 1 or 0 makes the phase ended and
\* stops the shrink timer, and the phase becomes ended in no other step.
C3_WinDetectionAfterEveryEvent ==
    [][/\ ( /\ room.phase = "playing"
            /\ room' # NoRoom
            /\ room' # room
            /\ room'.phase # "lobby"
            /\ AliveCount(room) > 1
            /\ AliveCount(room') <= 1 )
          => (room'.phase = "ended" /\ intervals' = << >>)
       /\ (room'.phase = "ended" /\ room.phase # "ended")
          => (room.phase = "playing" /\ AliveCount(room) > 1 /\ AliveCount(room') <= 1)
      ]_vars

\* --------------------------------------------------------------------- C4
\* the piece a move of `piece` to cell `to` captures, as findPiece gives it;
\* << >> if the move captures no piece of a player
Captured(piece, to) ==
    IF to = CellOf(piece) \/ room.board[to] = NoPiece THEN << >>
    ELSE findPiece(room, room.board[to])

\* C4: in a started match, an accepted move that captures a player's king
\* while that player owns other pieces leaves the phase playing and the
\* player alive; one that captures a player's last piece marks the player
\* dead, and when exactly one alive player with pieces is left the phase is
\* ended and the announced winner is that player's name ("null" when nobody
\* is left).
C4_CaptureOutcome ==
    \A s \in SocketInputs : \A m \in MoveInputs(s) :
        LET res == MoveResult(s, m[1], m[2][1], m[2][2])
            at == findPiece(room, m[1])
            piece == room.players[at[1]].pieces[at[2]]
            v == Captured(piece, m[2])
            owner == room.players[v[1]]
            after == res.room.players[v[1]]
            alive == AlivePlayers(res.room)
        IN  (res.verdict = "moved" /\ v # << >>) =>
              /\ (owner.pieces[v[2]].type = "king" /\ Len(owner.pieces) > 1)
                    => (res.room.phase = "playing" /\ after.alive)
              /\ Len(owner.pieces) = 1 => ~after.alive
              /\ (Len(owner.pieces) = 1 /\ Len(alive) = 1)
                    => /\ res.room.phase = "ended"
                       /\ res.out = << Msg("piece_moved", m[1]),
                                       Msg("game_ended", alive[1].name) >>
              /\ (Len(owner.pieces) = 1 /\ Len(alive) = 0)
                    => /\ res.room.phase = "ended"
                       /\ res.out = << Msg("piece_moved", m[1]),
                                       Msg("game_ended", "null") >>

\* --------------------------------------------------------------------- C5
\* C5: the phase of a room changes only from lobby to playing by an accepted
\* start, from playing to ended by the win detection of an accepted move, or
\* from any phase to lobby by an accepted reset; so no other step changes the
\* phase of an ended room.
C5_PhaseChanges ==
    [][(room # NoRoom /\ room' # NoRoom /\ room'.phase # room.phase) =>
          \/ room.phase = "lobby" /\ room'.phase = "playing" /\ StartStep
          \/ room.phase = "playing" /\ room'.phase = "ended" /\ MoveStep
               /\ AliveCount(room') <= 1
          \/ room'.phase = "lobby" /\ ResetStep
      ]_vars

\* a match that win detection has ended
C5_Witness ==
    room.phase = "ended" /\ AliveCount(room) <= 1 /\ intervals = << >>

\* --------------------------------------------------------------------- C6
\* the destinations off the board, in the woods, in a danger zone
BadDestinations == (Destinations \ Cells) \cup room.woods \cup room.dangerZones

\* C6: a move request whose destination is off the board, in the woods or
\* in a danger zone is rejected, whoever sends it and whatever piece it
\* names; the rejection leaves the room (and the timers) as they were and
\* sends nothing to the room.
C6_BadDestinationRejected ==
    room # NoRoom =>
        \A s \in SocketInputs, id \in PieceIds \cup { NoPieceId }, to \in BadDestinations :
            LET res == MoveResult(s, id, to[1], to[2])
            IN  /\ res.verdict # "moved"
                /\ res.room = room
                /\ res.intervals = intervals
                /\ res.cooldowns = cooldowns
                /\ res.out = << >>

\* a match with woods and a danger zone in which a player asks to move a
\* piece of its own off the board, into the woods and into a danger zone,
\* and isValidMove turns each request down
C6_Witness ==
    /\ room.phase = "playing"
    /\ \E s \in sockets, id \in PieceIds :
          /\ \E to \in Destinations \ Cells : MoveResult(s, id, to[1], to[2]).verdict = "invalid"
          /\ \E to \in room.woods : MoveResult(s, id, to[1], to[2]).verdict = "invalid"
          /\ \E to \in room.dangerZones : MoveResult(s, id, to[1], to[2]).verdict = "invalid"

\* --------------------------------------------------------------------- C7
\* C7: a move whose destination is further than the leash (Chebyshev) from
\* where the king of the acting player stands is rejected, whatever the
\* piece, the king included; and the piece of an accepted move ends within
\* the leash of where that king stood when the move was validated.
C7_Leash ==
    room # NoRoom =>
        \A s \in sockets : \A m \in MoveInputs(s) :
            LET i == SocketPlayer(s)
                k == KingIndex(room.players[i].pieces)
                king == room.players[i].pieces[k]
                res == MoveResult(s, m[1], m[2][1], m[2][2])
                at == findPiece(res.room, m[1])
                moved == res.room.players[at[1]].pieces[at[2]]
            IN  (i # 0 /\ k # 0) =>
                  /\ Chebyshev(m[2], CellOf(king)) > LEASH => res.verdict # "moved"
                  /\ res.verdict = "moved" => Chebyshev(CellOf(moved), CellOf(king)) <= LEASH

\* after two accepted moves a player asks to move its king, and a piece that
\* is not its king and may move, to a cell of the board outside woods and
\* danger zones that is beyond the leash, and both requests are turned down
C7_Witness ==
    /\ room.phase = "playing"
    /\ budget.kind = "duel" /\ budget.moves = 0
    /\ \E s \in sockets, to \in Cells \ (room.woods \cup room.dangerZones) :
          \E p, q \in ListedPieces(room) :
              /\ p.playerId = s.playerId /\ p.type = "king"
              /\ q.playerId = s.playerId /\ q.type # "king" /\ q.canMove
              /\ Chebyshev(to, CellOf(p)) > LEASH
              /\ MoveResult(s, p.id, to[1], to[2]).verdict = "invalid"
              /\ MoveResult(s, q.id, to[1], to[2]).verdict = "invalid"

\* --------------------------------------------------------------------- C8
\* the pending timeouts that will release listed piece p
OwnTimeouts(p) ==
    { k \in 1 .. Len(cooldowns) : cooldowns[k].pieceId = p.id /\ cooldowns[k].current }

\* the requests the other checks of the move handler let through are refused
\* exactly for a piece that is no king and may not move; an accepted move of
\* such a piece clears its flag and sets one timeout of the full cooldown,
\* an accepted move of a king does neither; a king's flag is never false
CooldownGate ==
    room # NoRoom =>
      /\ \A p \in ListedPieces(room) :
            /\ p.type = "king" => p.canMove
            /\ (p.type # "king" /\ ~p.canMove) => Cardinality(OwnTimeouts(p)) = 1
      /\ \A s \in sockets : \A m \in MoveInputs(s) :
            LET i == SocketPlayer(s)
                at == findPiece(room, m[1])
                piece == room.players[at[1]].pieces[at[2]]
                res == MoveResult(s, m[1], m[2][1], m[2][2])
                to == findPiece(res.room, m[1])
                moved == res.room.players[to[1]].pieces[to[2]]
            IN  ( /\ room.phase = "playing"
                  /\ i # 0
                  /\ room.players[i].alive
                  /\ at # << >>
                  /\ piece.playerId = s.playerId
                  /\ m[2] \in Cells \ (room.woods \cup room.dangerZones)
                  /\ ~OutOfLeash(room, piece, m[2][1], m[2][2]) ) =>
                  /\ (res.verdict = "invalid") <=> (piece.type # "king" /\ ~piece.canMove)
                  /\ (res.verdict # "invalid") <=> (res.verdict = "moved")
                  /\ (res.verdict = "moved" /\ piece.type # "king") =>
                        /\ ~moved.canMove
                        /\ res.cooldowns = Append(cooldowns, [pieceId |-> piece.id,
                                                              current |-> TRUE,
                                                              left |-> COOLDOWN])
                  /\ (res.verdict = "moved" /\ piece.type = "king") =>
                        /\ moved.canMove
                        /\ res.cooldowns = cooldowns

\* the flag of a piece goes from false to true only in the step in which the
\* timeout of its own last move fires, a full cooldown after it was set
OwnExpiryOnly ==
    \A p \in ListedPieces(room) : \A q \in ListedPieces(room') :
        (q.id = p.id /\ ~p.canMove /\ q.canMove) =>
            /\ cooldowns # << >>
            /\ Head(cooldowns) = [pieceId |-> p.id, current |-> TRUE, left |-> 0]
            /\ cooldowns' = Tail(cooldowns)

\* a timeout counts down by whole seconds and leaves only by firing at zero
\* (or with the room, when the room is deleted)
TimeoutsRunDown ==
    \/ cooldowns' = cooldowns
    \/ room' = NoRoom /\ cooldowns' = << >>
    \/ \E t \in [pieceId : PieceIds, current : {TRUE}, left : {COOLDOWN}] :
          cooldowns' = Append(cooldowns, t)
    \/ /\ Len(cooldowns') = Len(cooldowns)
       /\ \A k \in 1 .. Len(cooldowns) :
             \/ cooldowns'[k] = [cooldowns[k] EXCEPT !.current = FALSE]
             \/ cooldowns[k].left > 0 /\ cooldowns'[k] = [cooldowns[k] EXCEPT !.left = @ - 1]
    \/ cooldowns # << >> /\ Head(cooldowns).left = 0 /\ cooldowns' = Tail(cooldowns)

\* C8: a move is refused on cooldown grounds exactly when the piece is no
\* king and its movable flag is false; an accepted move of such a piece
\* clears the flag, which stays false until the timeout of that move fires a
\* full cooldown later; a king's flag is never false and a king may move
\* again at once.
C8_CooldownGating ==
    []CooldownGate /\ [][OwnExpiryOnly /\ TimeoutsRunDown]_vars

\* a piece that moved is cooling down, its timeout is pending, and a request
\* to move it to a cell it could otherwise go to is refused, while the
\* request to move its owner's king there is accepted
C8_Witness ==
    /\ room.phase = "playing"
    /\ \E s \in sockets, to \in Cells \ (room.woods \cup room.dangerZones) :
          \E p, q \in ListedPieces(room) :
              /\ p.playerId = s.playerId /\ p.type # "king" /\ ~p.canMove
              /\ q.playerId = s.playerId /\ q.type = "king"
              /\ OwnTimeouts(p) # {}
              /\ ~OutOfLeash(room, p, to[1], to[2])
              /\ MoveResult(s, p.id, to[1], to[2]).verdict = "invalid"
              /\ MoveResult(s, q.id, to[1], to[2]).verdict = "moved"

\* --------------------------------------------------------------------- C9
\* a join under a session key no player holds is turned away from a full
\* room and from a room that is not in the lobby, and then changes nothing
\* and sends nothing to the room; the room never has more than MAX_PLAYERS
JoinGate ==
    room # NoRoom =>
      /\ Len(room.players) <= MAX_PLAYERS
      /\ \A s \in SocketInputs, j \in JoinInputs :
            LET res == JoinResult(s, j.w, j.k, NameOf(j.k), j.a, j.pw)
            IN  ( /\ ExistingPlayerIndex(room, j.k) = 0
                  /\ (Len(room.players) >= MAX_PLAYERS \/ room.phase # "lobby") ) =>
                  /\ res.verdict \in {"room_full", "already_started", "bad_password"}
                  /\ res.room = room
                  /\ res.socket = s
                  /\ res.nextPlayerId = nextPlayerId
                  /\ res.out = << >>

\* C9: a new join (no reconnect) is rejected when the room has MAX_PLAYERS
\* players or is not in the lobby, and a rejected join changes no state of
\* the room and sends nothing to the room; a room never has more than
\* MAX_PLAYERS players, and the players of a room that is playing or ended
\* never gain a member.
C9_JoinGate ==
    []JoinGate
      /\ [][room.phase \in {"playing", "ended"} => PlayerIds(room') \subseteq PlayerIds(room)]_vars

\* a match that lost a player, so that it is not full, turns down a newcomer
C9_Witness ==
    /\ room.phase = "playing"
    /\ Len(room.players) < MAX_PLAYERS
    /\ \E s \in SocketInputs, j \in JoinInputs :
          /\ ExistingPlayerIndex(room, j.k) = 0
          /\ JoinResult(s, j.w, j.k, NameOf(j.k), j.a, j.pw).verdict = "already_started"

\* -------------------------------------------------------------------- C10
\* a start request is accepted only from the admin of a lobby of at least
\* MIN_PLAYERS players, and a rejected one changes nothing; an accepted one
\* makes the phase playing, gives every player one piece per entry of
\* pieceTypes, on the board, one of them a king, puts the pieces on the
\* board and leaves exactly one shrink interval running
StartGate ==
    room # NoRoom =>
        \A s \in SocketInputs, ps \in SpawnInputs :
            LET res == StartResult(s, ps)
                i == SocketPlayer(s)
            IN  /\ res.verdict # "started" =>
                      res.room = room /\ res.intervals = intervals /\ res.out = << >>
                /\ res.verdict = "started" =>
                      /\ i # 0
                      /\ room.players[i].isAdmin
                      /\ room.admin = room.players[i].id
                      /\ room.phase = "lobby"
                      /\ Len(room.players) >= MIN_PLAYERS
                      /\ res.room.phase = "playing"
                      /\ Len(res.room.players) = Len(room.players)
                      /\ \A n \in 1 .. Len(res.room.players) :
                            LET pcs == res.room.players[n].pieces
                            IN  /\ res.room.players[n].id = room.players[n].id
                                /\ Len(pcs) = Len(pieceTypes)
                                /\ Cardinality({ x \in 1 .. Len(pcs) : pcs[x].type = "king" }) = 1
                                /\ \A x \in 1 .. Len(pcs) :
                                      /\ CellOf(pcs[x]) \in Cells
                                      /\ pcs[x].playerId = room.players[n].id
                                      /\ res.room.board[CellOf(pcs[x])] # NoPiece
                      /\ \A c \in Cells : res.room.board[c] # NoPiece =>
                            \E p \in ListedPieces(res.room) :
                                p.id = res.room.board[c] /\ CellOf(p) = c
                      /\ Len(res.intervals) = 1
                      /\ res.intervals[1] = res.room.shrinkInterval

\* C10: start is accepted only when the caller is the admin of the room, the
\* phase is lobby and the room has at least 2 players, and any other start
\* request changes nothing; an accepted start sets the phase to playing,
\* gives every player its full set of pieces (16 in the source) on the board
\* with one king, writes them onto the board and starts exactly one shrink
\* timer; the phase becomes playing by no other step.
C10_Start ==
    []StartGate /\ [][(room'.phase = "playing" /\ room.phase # "playing") => StartStep]_vars

\* a lobby that its admin has started
C10_Witness ==
    /\ budget.kind = "lobby"
    /\ budget.starts < LobbyStarts
    /\ room.phase = "playing"
    /\ Len(room.players) >= MIN_PLAYERS
    /\ intervals = << room.shrinkInterval >>

\* -------------------------------------------------------------------- C11
\* the players a pending removal check names
PendingChecks == { graces[k] : k \in 1 .. Len(graces) }

\* a join under the session key of a player of the room (that passes the
\* password check) is a reconnect: it leaves every player record as it was,
\* id, piece list and alive flag included, but for connected = true of the
\* player that holds the key; it leaves the board as it was and creates no
\* player
ReconnectKeeps ==
    room # NoRoom =>
        \A s \in SocketInputs, j \in JoinInputs :
            LET e == ExistingPlayerIndex(room, j.k)
                res == JoinResult(s, j.w, j.k, NameOf(j.k), j.a, j.pw)
            IN  (e # 0 /\ res.verdict # "bad_password") =>
                  /\ res.verdict = "reconnected"
                  /\ res.room = [room EXCEPT !.players[e].connected = TRUE,
                                             !.lastActivity = now]
                  /\ res.nextPlayerId = nextPlayerId
                  /\ res.out = << Msg("player_reconnected", room.players[e].id) >>

\* a pending removal check that finds its player connected removes nothing
\* and sends nothing
CheckSpares ==
    room # NoRoom =>
        \A pid \in PendingChecks :
            (HasPlayer(room, pid) /\ GetPlayer(room, pid).connected) =>
                /\ GraceResult(pid).room = room
                /\ GraceResult(pid).out = << >>

\* a player that is connected while a removal check for it is pending stays
\* a connected player of the room in every step
StaysUntilCheck ==
    \A pid \in PendingChecks :
        (room # NoRoom /\ HasPlayer(room, pid) /\ GetPlayer(room, pid).connected) =>
            \/ room' = NoRoom
            \/ HasPlayer(room', pid) /\ GetPlayer(room', pid).connected

\* C11: when a player that disconnected rejoins under its session key before
\* the removal check fires, its record keeps its id, its piece list and its
\* alive flag and is connected again, and the removal check the disconnect
\* scheduled, when it fires, removes neither the player nor any piece.
C11_ReconnectInGrace ==
    []ReconnectKeeps /\ []CheckSpares /\ [][StaysUntilCheck]_vars

\* in a match, a player with pieces has rejoined while the removal check of
\* its disconnect is still pending
C11_Witness ==
    /\ room.phase = "playing"
    /\ \E pid \in PendingChecks :
          /\ HasPlayer(room, pid)
          /\ GetPlayer(room, pid).connected
          /\ GetPlayer(room, pid).pieces # << >>

\* -------------------------------------------------------------------- C12
\* the players of the room that have isAdmin set
Admins(r) == { i \in 1 .. Len(Players(r)) : Players(r)[i].isAdmin }

\* C12: a removal check that finds its player still disconnected removes it:
\* the record is deleted (the other players stay), the cell of every piece of
\* its list is cleared and the room is told; if the player held admin and a
\* player remains, exactly one remaining player has isAdmin set and the
\* room's admin field names it.
C12_RemovalAfterGrace ==
    room # NoRoom =>
        \A pid \in PendingChecks :
            LET res == GraceResult(pid)
                gone == GetPlayer(room, pid)
            IN  (HasPlayer(room, pid) /\ ~gone.connected) =>
                  /\ res.verdict = "removed"
                  /\ res.out = << Msg("player_removed", pid) >>
                  /\ PlayerIds(res.room) = PlayerIds(room) \ {pid}
                  /\ Len(res.room.players) = Len(room.players) - 1
                  /\ \A k \in 1 .. Len(gone.pieces) :
                        res.room.board[CellOf(gone.pieces[k])] = NoPiece
                  /\ \A c \in Cells : res.room.board[c] \in {NoPiece, room.board[c]}
                  /\ (gone.isAdmin /\ Len(res.room.players) > 0) =>
                        /\ Cardinality(Admins(res.room)) = 1
                        /\ \E i \in Admins(res.room) :
                              res.room.admin = res.room.players[i].id

\* the admin of a match has been removed with its pieces: the other player
\* is left, is admin now, and only its pieces are on the board
C12_Witness ==
    /\ budget.kind = "match"
    /\ room.phase = "playing"
    /\ graces = << >>
    /\ Len(room.players) = 1
    /\ room.players[1].id = 2
    /\ room.players[1].isAdmin
    /\ room.admin = 2
    /\ \A c \in Cells : room.board[c] # NoPiece => room.board[c][1] = 2

\* -------------------------------------------------------------------- C13
\* the coordinates of the outer ring of the board
OuterRing ==
    { c \in Cells : c[1] = 0 \/ c[1] = BOARD_SIZE - 1 \/ c[2] = 0 \/ c[2] = BOARD_SIZE - 1 }

\* C13: every shrink event adds to dangerZones exactly min(2, k) coordinates
\* of the outer ring that were not in it, k being the number of coordinates
\* of the ring not yet in dangerZones; no tick of a playing room takes a
\* member out of dangerZones, which is always a subset of the outer ring,
\* and once the whole ring is in dangerZones a tick leaves it unchanged.
C13_ShrinkEvent ==
    room # NoRoom =>
      /\ room.dangerZones \subseteq OuterRing
      /\ (room.phase = "playing" /\ intervals # << >>) =>
            \A res \in TickResults(room.shrinkInterval) :
                LET added == res.room.dangerZones \ room.dangerZones
                    k == Cardinality(OuterRing \ room.dangerZones)
                IN  /\ room.dangerZones \subseteq res.room.dangerZones
                    /\ added \subseteq OuterRing
                    /\ res.verdict = "shrunk" => Cardinality(added) = Min(SHRINK_PER_EVENT, k)
                    /\ res.verdict # "shrunk" => added = {}
                    /\ k = 0 => res.room.dangerZones = room.dangerZones

\* -------------------------------------------------------------------- C14
\* C14: a reconnect rebinds the socket to the existing player: after it the
\* socket names the room and the player, so that the move, start and reset
\* requests it sends are that player's, and when it closes the player is
\* marked disconnected and a removal check is scheduled.
C14_ReconnectRebinds ==
    room # NoRoom =>
        \A s \in SocketInputs, j \in JoinInputs :
            LET e == ExistingPlayerIndex(room, j.k)
                res == JoinResult(s, j.w, j.k, NameOf(j.k), j.a, j.pw)
            IN  res.verdict = "reconnected" =>
                  /\ res.socket.roomId
                  /\ res.socket.playerId = room.players[e].id

\* -------------------------------------------------------------------- C15
\* a room has at most one live shrink interval: none in the lobby or after
\* the end, and in a match the one its shrinkInterval field names
OneShrinkTimer ==
    room # NoRoom =>
      /\ Len(intervals) <= 1
      /\ room.phase \in {"lobby", "ended"} => intervals = << >>
      /\ room.phase = "playing" => intervals = << room.shrinkInterval >>

\* the countdown and the danger zones change only by a reset and by a tick
\* of the interval of the match that is being played
TicksOfThisMatchOnly ==
    ( /\ room # NoRoom
      /\ room' # NoRoom
      /\ (room'.shrinkTimer # room.shrinkTimer \/ room'.dangerZones # room.dangerZones) ) =>
        \/ ResetStep
        \/ /\ room.phase = "playing"
           /\ intervals = << room.shrinkInterval >>
           /\ \E res \in TickResults(room.shrinkInterval) : room' = res.room

C16_StaleExpiryIsSilent ==
    room # NoRoom =>
        \A k \in 1 .. Len(cooldowns) :
            LET t == cooldowns[k]
                res == CooldownResult(t)
                at == findPiece(room, t.pieceId)
                after == findPiece(res.room, t.pieceId)
            IN  /\ (~t.current \/ at = << >>) => (res.room = room /\ res.out = << >>)
                /\ res.out # << >> =>
                      /\ t.current
                      /\ at # << >>
                      /\ ~room.players[at[1]].pieces[at[2]].canMove
                      /\ res.room.players[after[1]].pieces[after[2]].canMove

\* -------------------------------------------------------------------- C17
\* a lobby holds the full countdown and no danger zone, so a match starts
\* with them; in a match no shrink event happens while the countdown is above
\* 1; a tick at a countdown above 1 takes one off it and does nothing else;
\* a tick at countdown 1 is a shrink event (it adds to the danger zones
\* unless the ring is full) and leaves the countdown at 1; every tick sends
\* the countdown and the danger zones it leaves
Cadence ==
    room # NoRoom =>
      /\ room.phase = "lobby" => (room.shrinkTimer = SHRINK_START /\ room.dangerZones = {})
      /\ (room.phase = "playing" /\ intervals # << >>) =>
            /\ room.shrinkTimer \in 1 .. SHRINK_START
            /\ room.shrinkTimer > 1 => room.dangerZones = {}
            /\ \A res \in TickResults(room.shrinkInterval) :
                  /\ res.out = << Msg("timer_update",
                                      << res.room.shrinkTimer, res.room.dangerZones >>) >>
                  /\ room.shrinkTimer > 1 =>
                        /\ res.verdict = "counted"
                        /\ res.room = [room EXCEPT !.shrinkTimer = @ - 1]
                  /\ room.shrinkTimer = 1 =>
                        /\ res.verdict = "shrunk"
                        /\ res.room.shrinkTimer = 1
                        /\ \E r1 \in shrinkBoard(room) :
                              res.room.dangerZones = r1.dangerZones
                        /\ ~(OuterRing \subseteq room.dangerZones) =>
                              res.room.dangerZones # room.dangerZones

\* C17: while the phase is playing every tick takes one off shrinkCountdown;
\* the first shrink event of a match happens on the tick that brings the
\* initial countdown to zero and not before, every later tick of the match
\* is a shrink event, and shrinkCountdown is 1 after each shrink event; every
\* tick broadcasts the countdown and the danger zones.
C17_ShrinkCadence ==
    []Cadence /\ [][room # NoRoom /\ room' # NoRoom /\ room.phase = "playing"
                      /\ room'.phase = "playing"
                      /\ room'.dangerZones # room.dangerZones
                    => room.shrinkTimer = 1 /\ room'.shrinkTimer = 1]_vars

\* a match after two shrink events on consecutive ticks
C17_Witness ==
    /\ budget.kind = "siege"
    /\ budget.shrinks = SiegeShrinks - 2
    /\ room.phase = "playing"
    /\ room.shrinkTimer = 1
    /\ Cardinality(room.dangerZones) = 2 * SHRINK_PER_EVENT

\* -------------------------------------------------------------------- C18
\* C18: every accepted move adds exactly one to the turn counter of the room
\* and an accepted reset sets it to 0 (nothing else changes it), so that the
\* counter is the number of moves accepted since the last reset.
C18_TurnCounts ==
    room # NoRoom =>
      /\ \A s \in SocketInputs : \A m \in MoveInputs(s) :
            LET res == MoveResult(s, m[1], m[2][1], m[2][2])
            IN  res.verdict = "moved" => res.room.turn = room.turn + 1
      /\ \A s \in SocketInputs, w \in WoodsChoices :
            ResetResult(s, w).verdict = "reset" => ResetResult(s, w).room.turn = 0

\* -------------------------------------------------------------------- C19
\* C19: every accepted action (join, reconnect, start, move, reset) leaves
\* the room's lastActivity at the time of the action, so that the room
\* cleanup never deletes a room in which an action was accepted in the last
\* 24 hours (REAP_AFTER here), a room whose players move pieces in particular.
C19_ActivityRefreshed ==
    room # NoRoom =>
      /\ \A s \in SocketInputs, j \in JoinInputs :
            LET res == JoinResult(s, j.w, j.k, NameOf(j.k), j.a, j.pw)
            IN  res.verdict \in {"joined", "reconnected"} => res.room.lastActivity = now
      /\ \A s \in SocketInputs, ps \in SpawnInputs :
            StartResult(s, ps).verdict = "started" => StartResult(s, ps).room.lastActivity = now
      /\ \A s \in SocketInputs : \A m \in MoveInputs(s) :
            LET res == MoveResult(s, m[1], m[2][1], m[2][2])
            IN  res.verdict = "moved" => res.room.lastActivity = now
      /\ \A s \in SocketInputs, w \in WoodsChoices :
            ResetResult(s, w).verdict = "reset" => ResetResult(s, w).room.lastActivity = now

\* -------------------------------------------------------------------- C20
\* C20: at most one player of a room has isAdmin set, and the admin field of
\* the room is empty or the id of a player of the room that has isAdmin set;
\* so the field never names a player that is gone.
C20_AdminConsistent ==
    room # NoRoom =>
      /\ Cardinality(Admins(room)) <= 1
      /\ \/ room.admin = NULL
         \/ /\ HasPlayer(room, room.admin)
            /\ GetPlayer(room, room.admin).isAdmin

\* -------------------------------------------------------------------- C21
\* C21: no piece of a player's piece list records a cell that is in
\* dangerZones; a shrink event takes from its owner's list every piece on a
\* coordinate it selects, and no accepted move and no start puts a piece on
\* a coordinate of dangerZones.
C21_NoPieceInDanger ==
    room # NoRoom =>
      /\ \A p \in ListedPieces(room) : CellOf(p) \notin room.dangerZones
      /\ (room.phase = "playing" /\ intervals # << >>) =>
            \A res \in TickResults(room.shrinkInterval) :
                \A p \in ListedPieces(res.room) : CellOf(p) \notin res.room.dangerZones
      /\ \A s \in SocketInputs : \A m \in MoveInputs(s) :
            LET res == MoveResult(s, m[1], m[2][1], m[2][2])
            IN  res.verdict = "moved" =>
                  \A p \in ListedPieces(res.room) : CellOf(p) \notin res.room.dangerZones
      /\ \A s \in SocketInputs, ps \in SpawnInputs :
            LET res == StartResult(s, ps)
            IN  res.verdict = "started" =>
                  \A p \in ListedPieces(res.room) : CellOf(p) \notin res.room.dangerZones

====
